---- MODULE Spec2Model ----
(***************************************************************************)
(* Ocean AI POC: the ingestion pipeline (ingest.py, DocumentIngestor) and  *)
(* the query pipeline (rag_retriever.py, OceanRAGRetriever) over the       *)
(* PostgreSQL store declared in database_setup.py.                         *)
(*                                                                         *)
(* The store is the shared state: the rows of `documents` and `chunks`     *)
(* and their SERIAL sequences.  Every ingest_document call is cut at its   *)
(* store and provider calls (document_exists, store_document, one          *)
(* create_embeddings per batch, store_chunks); the code between two such   *)
(* calls is local to the call and belongs to the step before it.  A query  *)
(* reads the store once, so a whole query() call is one step.              *)
(***************************************************************************)
EXTENDS Integers, Sequences, FiniteSets, TLC

\* Python's None.
NoneVal == "None"

\* ------------------------------------------------------------------------
\* The elements of a list.
Elements(seq) == {seq[k] : k \in 1..Len(seq)}

\* Bounds of the model.

\* Top-level invocations of ingest.py (one ingest_document or one
\* ingest_directory each), over all ingestors.
MaxCalls == 2

\* ------------------------------------------------------------------------
\* The inputs: the files on disk.

\* Two ingestors that may run at the same time (two processes of ingest.py).
Workers == {"w1", "w2"}

\* Paths handed to ingest_document.
Paths == {"baltic_seagrass_report.pdf", "blank.md", "data.csv", "gone.txt"}

\* A report too long for one embedding batch, handed to ingest_document on
\* its own.
LongPaths == {"long_report.txt"}

\* Further files handed to ingest_document on their own: a report cut into
\* two very long chunks, a text file that cannot be opened, a PDF that cannot
\* be parsed, and the blank and the missing file of Paths.
OtherPaths == {"big_report.txt", "locked.txt", "broken.pdf", "blank.md", "gone.txt"}

\* Path.exists().
PathExists(f) == f # "gone.txt"

\* Path.suffix.lower().
Suffix(f) ==
    CASE f = "baltic_seagrass_report.pdf" -> ".pdf"
      [] f = "ESG_Arctic_Plastic.txt" -> ".txt"
      [] f = "blank.md" -> ".md"
      [] f = "data.csv" -> ".csv"
      [] f = "broken.pdf" -> ".pdf"
      [] OTHER -> ".txt"

\* Path.stat().st_size.
FileSize(f) ==
    CASE f = "baltic_seagrass_report.pdf" -> 1500
      [] f = "ESG_Arctic_Plastic.txt" -> 700
      [] f = "blank.md" -> 3
      [] f = "data.csv" -> 40
      [] f = "long_report.txt" -> 90000
      [] f = "big_report.txt" -> 21000
      [] f = "locked.txt" -> 120
      [] f = "broken.pdf" -> 5000
      [] OTHER -> 0

\* The embedding loop of ingest_document sends batch_size chunks at a time.
batch_size == 100

\* The segments of long_report.txt, one more than a batch holds: segment k is
\* named by the file and k.
LongReportSegments == [k \in 1..(batch_size + 1) |-> <<"long_report.txt", k>>]

\* The segments of big_report.txt: a chunk of 13000 characters, then one of
\* 8000, named by the file and their place.
BigReportSegments == << <<"big_report.txt", 1>>, <<"big_report.txt", 2>> >>

\* open() and read() succeed, PdfReader parses the file.
Readable(f) == f \notin {"locked.txt", "broken.pdf"}

\* The text that extraction yields, as the sequence of segments the splitter
\* cuts it into; <<>> is a text that is empty after strip().
FileText(f) ==
    CASE f = "baltic_seagrass_report.pdf" -> <<"seagrass meadows", "baltic nutrients">>
      [] f = "ESG_Arctic_Plastic.txt" -> <<"arctic plastic">>
      [] f = "data.csv" -> <<"a,b,c">>
      [] f = "long_report.txt" -> LongReportSegments
      [] f = "big_report.txt" -> BigReportSegments
      [] OTHER -> <<>>

\* The characters of the strings of the model, in order.
Chars(s) ==
    CASE s = "baltic_seagrass_report.pdf" ->
           <<"b", "a", "l", "t", "i", "c", "_", "s", "e", "a", "g", "r", "a", "s", "s", "_", "r", "e", "p", "o", "r", "t", ".", "p", "d", "f">>
      [] s = "ESG_Arctic_Plastic.txt" ->
           <<"E", "S", "G", "_", "A", "r", "c", "t", "i", "c", "_", "P", "l", "a", "s", "t", "i", "c", ".", "t", "x", "t">>
      [] s = "blank.md" ->
           <<"b", "l", "a", "n", "k", ".", "m", "d">>
      [] s = "data.csv" ->
           <<"d", "a", "t", "a", ".", "c", "s", "v">>
      [] s = "big_report.txt" ->
           <<"b", "i", "g", "_", "r", "e", "p", "o", "r", "t", ".", "t", "x", "t">>
      [] s = "long_report.txt" ->
           <<"l", "o", "n", "g", "_", "r", "e", "p", "o", "r", "t", ".", "t", "x", "t">>
      [] s = "gone.txt" ->
           <<"g", "o", "n", "e", ".", "t", "x", "t">>
      [] s = "sustainability" ->
           <<"s", "u", "s", "t", "a", "i", "n", "a", "b", "i", "l", "i", "t", "y">>
      [] s = "esg" ->
           <<"e", "s", "g">>
      [] s = "csr" ->
           <<"c", "s", "r">>
      [] s = "annual" ->
           <<"a", "n", "n", "u", "a", "l">>
      [] s = "quarterly" ->
           <<"q", "u", "a", "r", "t", "e", "r", "l", "y">>
      [] s = "financial" ->
           <<"f", "i", "n", "a", "n", "c", "i", "a", "l">>
      [] s = "esrs" ->
           <<"e", "s", "r", "s">>
      [] s = "european sustainability reporting" ->
           <<"e", "u", "r", "o", "p", "e", "a", "n", " ", "s", "u", "s", "t", "a", "i", "n", "a", "b", "i", "l", "i", "t", "y", " ", "r", "e", "p", "o", "r", "t", "i", "n", "g">>
      [] s = "baltic" ->
           <<"b", "a", "l", "t", "i", "c">>
      [] s = "north sea" ->
           <<"n", "o", "r", "t", "h", " ", "s", "e", "a">>
      [] s = "mediterranean" ->
           <<"m", "e", "d", "i", "t", "e", "r", "r", "a", "n", "e", "a", "n">>
      [] s = "atlantic" ->
           <<"a", "t", "l", "a", "n", "t", "i", "c">>
      [] s = "pacific" ->
           <<"p", "a", "c", "i", "f", "i", "c">>
      [] s = "arctic" ->
           <<"a", "r", "c", "t", "i", "c">>
      [] s = "seagrass" ->
           <<"s", "e", "a", "g", "r", "a", "s", "s">>
      [] s = "coral" ->
           <<"c", "o", "r", "a", "l">>
      [] s = "biodiversity" ->
           <<"b", "i", "o", "d", "i", "v", "e", "r", "s", "i", "t", "y">>
      [] s = "carbon" ->
           <<"c", "a", "r", "b", "o", "n">>
      [] s = "plastic" ->
           <<"p", "l", "a", "s", "t", "i", "c">>
      [] s = "fishing" ->
           <<"f", "i", "s", "h", "i", "n", "g">>
      [] s = "renewable" ->
           <<"r", "e", "n", "e", "w", "a", "b", "l", "e">>
      [] s = "ESG" ->
           <<"E", "S", "G">>
      [] s = "Annual" ->
           <<"A", "n", "n", "u", "a", "l">>
      [] s = "ARCTIC" ->
           <<"A", "R", "C", "T", "I", "C">>
      [] s = "North Sea" ->
           <<"N", "o", "r", "t", "h", " ", "S", "e", "a">>
      [] s = "Plastic" ->
           <<"P", "l", "a", "s", "t", "i", "c">>
      [] s = "report" ->
           <<"r", "e", "p", "o", "r", "t">>
      [] s = ".pdf" ->
           <<".", "p", "d", "f">>
      [] OTHER -> <<>>

UpperCase == <<"A", "B", "C", "D", "E", "F", "G", "H", "I", "J", "K", "L", "M", "N", "O", "P", "Q", "R", "S", "T", "U", "V", "W", "X", "Y", "Z">>

LowerCase == <<"a", "b", "c", "d", "e", "f", "g", "h", "i", "j", "k", "l", "m", "n", "o", "p", "q", "r", "s", "t", "u", "v", "w", "x", "y", "z">>

\* A character's lower-case form.
LowerChar(c) ==
    IF \E k \in 1..Len(UpperCase) : UpperCase[k] = c
    THEN LowerCase[CHOOSE k \in 1..Len(UpperCase) : UpperCase[k] = c]
    ELSE c

\* str.lower() that leaves the characters as they are.
LowerKeepingCase(chars) == chars

\* str.lower().
Lower(chars) == [k \in 1..Len(chars) |-> LowerChar(chars[k])]

\* `term in s` for strings given by their characters.
Contains(term, s) ==
    \E i \in 0..(Len(s) - Len(term)) : SubSeq(s, i + 1, i + Len(term)) = term

\* The files of the directory handed to ingest_directory.
DirFiles == {f \in Paths : PathExists(f)}

\* The organization argument.
Orgs == {NoneVal}

\* ------------------------------------------------------------------------
\* MetadataExtractor.

GeographicTerms ==
    << <<"baltic", "Baltic Sea">>, <<"north sea", "North Sea">>,
       <<"mediterranean", "Mediterranean Sea">>, <<"atlantic", "Atlantic Ocean">>,
       <<"pacific", "Pacific Ocean">>, <<"arctic", "Arctic Ocean">> >>

OceanTopics ==
    << <<"seagrass", "seagrass_restoration">>, <<"coral", "coral_conservation">>,
       <<"biodiversity", "marine_biodiversity">>, <<"carbon", "blue_carbon">>,
       <<"plastic", "marine_pollution">>, <<"fishing", "sustainable_fisheries">>,
       <<"renewable", "offshore_renewable_energy">> >>

\* The keywords of all the rules.
AllTerms ==
    {"sustainability", "esg", "csr", "annual", "quarterly", "financial", "esrs",
     "european sustainability reporting"}
      \cup {GeographicTerms[k][1] : k \in 1..Len(GeographicTerms)}
      \cup {OceanTopics[k][1] : k \in 1..Len(OceanTopics)}

\* The rule keywords that are substrings of filename_lower.
Terms(filename_lower) == {t \in AllTerms : Contains(Chars(t), filename_lower)}

DocTypeOf(terms) ==
    IF terms \cap {"sustainability", "esg", "csr"} # {} THEN "sustainability_report"
    ELSE IF terms \cap {"annual", "quarterly", "financial"} # {} THEN "company_report"
    ELSE IF terms \cap {"esrs", "european sustainability reporting"} # {} THEN "esrs_document"
    ELSE "unknown"

\* The first rule of `rules` whose keyword is in `terms`, NoneVal when none is
\* (the key is then absent from the metadata dict).
RECURSIVE FirstMatch(_, _, _)
FirstMatch(rules, terms, i) ==
    IF i > Len(rules) THEN NoneVal
    ELSE IF rules[i][1] \in terms THEN rules[i][2]
    ELSE FirstMatch(rules, terms, i + 1)

RECURSIVE AllMatches(_, _, _)
AllMatches(rules, terms, i) ==
    IF i > Len(rules) THEN <<>>
    ELSE (IF rules[i][1] \in terms THEN <<rules[i][2]>> ELSE <<>>)
         \o AllMatches(rules, terms, i + 1)

\* extract_metadata_from_filename, of a filename given by its characters.
extract_metadata_from_filename(filename) ==
    LET filename_lower == Lower(filename)
        terms == Terms(filename_lower)
    IN [doc_type |-> DocTypeOf(terms),
        geographic_focus |-> FirstMatch(GeographicTerms, terms, 1),
        topics |-> AllMatches(OceanTopics, terms, 1)]

\* ------------------------------------------------------------------------
\* Chunker, token counter and embedding provider.

\* RecursiveCharacterTextSplitter.split_text: the segments of the text, in order.
split_text(text) == text

\* len(encoding.encode(chunk)).
count_tokens(chunk) ==
    CASE chunk = "seagrass meadows" -> 4
      [] chunk = "baltic nutrients" -> 3
      [] chunk \in {BigReportSegments[1]} -> 2900
      [] chunk \in {BigReportSegments[2]} -> 1800
      [] OTHER -> 2

\* Embedding vectors are unit vectors of the plane, named by their angle in
\* units of 45 degrees.
Angles == 0..7

\* The vector the provider computes for a text.
EmbeddingOf(text) ==
    CASE text = "seagrass meadows" -> 0
      [] text = "baltic nutrients" -> 2
      [] text = "arctic plastic" -> 4
      [] text = "a,b,c" -> 3
      [] text = "What are seagrass restoration methods?" -> 0
      [] text \in Elements(BigReportSegments) -> text[2] - 1
      [] text \in Elements(LongReportSegments) -> text[2] % 8
      [] OTHER -> 1

\* ------------------------------------------------------------------------
\* State.

VARIABLES
    documents,   \* rows of table documents
    chunks,      \* rows of table chunks
    doc_seq,     \* last value of documents_id_seq
    chunk_seq,   \* last value of chunks_id_seq
    ing,         \* per ingestor: where its call stands, its locals, its last result
    calls,       \* invocations of ingest.py so far
    qry,         \* the query() call being answered, NoneVal when none is
    adm,         \* reset_db.py: how far reset_tables has come, and its runs so far
    direct       \* <<c>> for a method called on its own, with c.args and, once made, c.result

vars == <<documents, chunks, doc_seq, chunk_seq, ing, calls, qry, adm, direct>>

IdleIngestor ==
    [pc |-> "idle", mode |-> NoneVal, file |-> NoneVal, org |-> NoneVal,
     queue |-> {}, total |-> 0, attempted |-> 0, successful |-> 0,
     summary |-> NoneVal, doc_id |-> 0, i |-> 0, all_embeddings |-> <<>>,
     ret |-> NoneVal, why |-> NoneVal, open_conns |-> 0]

\* reset_tables is not running and has not run.
IdleReset == [pc |-> "idle", runs |-> 0]

Init ==
    /\ documents = {}
    /\ chunks = {}
    /\ doc_seq = 0
    /\ chunk_seq = 0
    /\ ing = [p \in Workers |-> IdleIngestor]
    /\ calls = 0
    /\ qry = NoneVal
    /\ adm = IdleReset
    /\ direct = <<>>

\* Table documents exists: reset_tables drops chunks, drops documents, then
\* create_database_and_tables creates documents, then chunks.
DocumentsTable == adm.pc \in {"idle", "dropped_chunks", "created_documents"}

\* Table chunks exists.
ChunksTable == adm.pc = "idle"

\* ------------------------------------------------------------------------
\* DocumentIngestor.

\* The SELECT joined with chunks: only documents that have chunks are found.
DocRowsWithChunks(filename, file_size) ==
    {d \in documents : /\ d.filename = filename
                       /\ d.file_size = file_size
                       /\ \E c \in chunks : c.doc_id = d.id}

\* SELECT id FROM documents WHERE filename = %s AND file_size = %s
DocRows(filename, file_size) ==
    {d \in documents : d.filename = filename /\ d.file_size = file_size}

\* document_exists comparing the wrong column.
document_exists_wrong_column(filename, file_size) ==
    {d \in documents : d.filename = filename /\ d.id = file_size} # {}

document_exists(filename, file_size) == DocRows(filename, file_size) # {}

\* The chunk rows of a document.
ChunksOf(id) == {c \in chunks : c.doc_id = id}

\* The row store_document inserts.
DocumentRow(id, f, org) ==
    LET metadata == extract_metadata_from_filename(Chars(f))
    IN [id |-> id, filename |-> f, doc_type |-> metadata.doc_type,
        organization |-> org, file_size |-> FileSize(f), metadata |-> metadata]

\* chunk_meta: the document's metadata with chunk_index and source_file.
ChunkMeta(metadata, f, i) ==
    [doc_type |-> metadata.doc_type, geographic_focus |-> metadata.geographic_focus,
     topics |-> metadata.topics, chunk_index |-> i, source_file |-> f]

\* enumerate(..., 1).
ChunkIndexFromOne(k) == k

\* enumerate() in store_chunks: the index given to the k-th (1-based) element.
ChunkIndex(k) == k - 1

Min(a, b) == IF a < b THEN a ELSE b

\* The rows store_chunks inserts: one per element of zip(chunks, embeddings,
\* chunk_metadata).
ChunkRows(id, f, cs, embeddings, first_id) ==
    LET metadata == extract_metadata_from_filename(Chars(f))
    IN {[id |-> first_id + k, doc_id |-> id, chunk_index |-> ChunkIndex(k),
         content |-> cs[k], embedding |-> embeddings[k],
         token_count |-> count_tokens(cs[k]),
         metadata |-> ChunkMeta(metadata, f, ChunkIndex(k))] :
           k \in 1..Min(Len(cs), Len(embeddings))}

\* The end of one ingest_document call that returned `ret` ("True" or "False"):
\* ingest_directory counts it and goes on with its loop; a single call is over.
Returned(st, ret, why) ==
    IF st.mode = "dir"
    THEN [st EXCEPT !.pc = IF st.queue = {} THEN "idle" ELSE "loop",
                    !.ret = ret, !.why = why, !.i = 0,
                    !.attempted = @ + 1,
                    !.successful = IF ret = "True" THEN @ + 1 ELSE @,
                    !.summary = IF st.queue = {} THEN "complete" ELSE NoneVal]
    ELSE [st EXCEPT !.pc = "idle", !.ret = ret, !.why = why, !.i = 0]

\* An exception leaving ingest_document: nothing in ingest_document,
\* ingest_directory or main catches it, so the invocation ends there.
Raised(st, why) ==
    [st EXCEPT !.pc = "idle", !.ret = "raised", !.why = why, !.i = 0,
               !.summary = IF st.mode = "dir" THEN "aborted" ELSE NoneVal]

\* An exception raised by a statement of a store method after its
\* get_db_connection returned: conn.close() is not reached.
RaisedHolding(st, why) == [Raised(st, why) EXCEPT !.open_conns = @ + 1]

\* What a store method meets: nothing, a failing get_db_connection, or a
\* failing statement on the open connection.
StoreOutcomes == {"ok", "connect", "execute"}

\* ingest_document up to its first store call: Path.exists(), name and size.
Entered(st, f) ==
    IF ~PathExists(f)
    THEN Returned(st, "False", "not_found")
    ELSE [st EXCEPT !.pc = "exists", !.file = f, !.doc_id = 0, !.i = 0,
                    !.all_embeddings = <<>>, !.ret = NoneVal, !.why = NoneVal]

\* main() with --file.
StartFile(p) ==
    /\ qry = NoneVal
    /\ ing[p].pc = "idle"
    /\ calls < MaxCalls
    /\ calls' = calls + 1
    /\ \E f \in Paths, org \in Orgs :
         ing' = [ing EXCEPT ![p] =
                   Entered([IdleIngestor EXCEPT !.mode = "file", !.org = org,
                                                !.file = f], f)]
    /\ UNCHANGED <<documents, chunks, doc_seq, chunk_seq, qry, adm, direct>>

\* main() with --file long_report.txt.
StartLongFile(p) ==
    /\ qry = NoneVal
    /\ ing[p].pc = "idle"
    /\ calls < MaxCalls
    /\ calls' = calls + 1
    /\ \E f \in LongPaths, org \in Orgs :
         ing' = [ing EXCEPT ![p] =
                   Entered([IdleIngestor EXCEPT !.mode = "file", !.org = org,
                                                !.file = f], f)]
    /\ UNCHANGED <<documents, chunks, doc_seq, chunk_seq, qry, adm, direct>>

\* main() with --file and one of the further files.
StartOtherFile(p) ==
    /\ qry = NoneVal
    /\ ing[p].pc = "idle"
    /\ calls < MaxCalls
    /\ calls' = calls + 1
    /\ \E f \in OtherPaths, org \in Orgs :
         ing' = [ing EXCEPT ![p] =
                   Entered([IdleIngestor EXCEPT !.mode = "file", !.org = org,
                                                !.file = f], f)]
    /\ UNCHANGED <<documents, chunks, doc_seq, chunk_seq, qry, adm, direct>>

supported_extensions == {".pdf", ".txt", ".md"}

\* main() with --directory: ingest_directory up to its loop.
StartDir(p) ==
    /\ qry = NoneVal
    /\ ing[p].pc = "idle"
    /\ calls < MaxCalls
    /\ calls' = calls + 1
    /\ \E org \in Orgs :
         LET files == {f \in DirFiles : Suffix(f) \in supported_extensions} IN
         ing' = [ing EXCEPT ![p] =
                   [IdleIngestor EXCEPT !.mode = "dir", !.org = org,
                                        !.queue = files,
                                        !.total = Cardinality(files),
                                        !.pc = IF files = {} THEN "idle" ELSE "loop",
                                        !.summary = IF files = {} THEN "complete"
                                                    ELSE NoneVal]]
    /\ UNCHANGED <<documents, chunks, doc_seq, chunk_seq, qry, adm, direct>>

\* One turn of ingest_directory's loop: the next file, in iterdir()'s order,
\* which is any order.
DirLoop(p) ==
    /\ qry = NoneVal
    /\ ing[p].pc = "loop"
    /\ \E f \in ing[p].queue :
         ing' = [ing EXCEPT ![p] =
                   Entered([ing[p] EXCEPT !.queue = @ \ {f}, !.file = f], f)]
    /\ UNCHANGED <<documents, chunks, doc_seq, chunk_seq, calls, qry, adm, direct>>

\* extract_text_from_pdf: the text of the pages, "" when PdfReader raises.
extract_text_from_pdf(f) == IF Readable(f) THEN FileText(f) ELSE <<>>

\* The text ingest_document reads: extract_text_from_pdf for a PDF, read()
\* for anything else.
ExtractText(f) ==
    IF Suffix(f) = ".pdf" THEN extract_text_from_pdf(f) ELSE FileText(f)

\* ingest_document storing the Document row before it reads the file.
DocumentExistsStoringFirst(p) ==
    /\ qry = NoneVal
    /\ ing[p].pc = "exists"
    /\ \E outcome \in StoreOutcomes :
         LET st == ing[p]
             f == st.file
             stored == [st EXCEPT !.doc_id = doc_seq + 1]
         IN IF outcome = "connect"
            THEN /\ ing' = [ing EXCEPT ![p] = Raised(st, "store_error")]
                 /\ UNCHANGED <<documents, doc_seq>>
            ELSE IF outcome = "execute" \/ ~DocumentsTable
            THEN /\ ing' = [ing EXCEPT ![p] = RaisedHolding(st, "store_error")]
                 /\ UNCHANGED <<documents, doc_seq>>
            ELSE IF document_exists(f, FileSize(f))
            THEN /\ ing' = [ing EXCEPT ![p] = Returned(st, "True", "skip")]
                 /\ UNCHANGED <<documents, doc_seq>>
            ELSE /\ doc_seq' = doc_seq + 1
                 /\ documents' = documents \cup {DocumentRow(doc_seq + 1, f, st.org)}
                 /\ ing' = [ing EXCEPT ![p] =
                              IF Suffix(f) # ".pdf" /\ ~Readable(f)
                              THEN Returned(stored, "False", "unreadable")
                              ELSE IF ExtractText(f) = <<>>
                              THEN Returned(stored, "False", "no_text")
                              ELSE [stored EXCEPT !.pc = "embed"]]
    /\ UNCHANGED <<chunks, chunk_seq, calls, qry, adm, direct>>

\* document_exists, then extraction (open() failing returns False) and the
\* empty-text test.
DocumentExists(p) ==
    /\ qry = NoneVal
    /\ ing[p].pc = "exists"
    /\ \E outcome \in StoreOutcomes :
         LET st == ing[p]
             f == st.file
         IN ing' = [ing EXCEPT ![p] =
                      IF outcome = "connect" THEN Raised(st, "store_error")
                      ELSE IF outcome = "execute" \/ ~DocumentsTable
                      THEN RaisedHolding(st, "store_error")
                      ELSE IF document_exists(f, FileSize(f))
                      THEN Returned(st, "True", "skip")
                      ELSE IF Suffix(f) # ".pdf" /\ ~Readable(f)
                      THEN Returned(st, "False", "unreadable")
                      ELSE IF ExtractText(f) = <<>>
                      THEN Returned(st, "False", "no_text")
                      ELSE [st EXCEPT !.pc = "store_document"]]
    /\ UNCHANGED <<documents, chunks, doc_seq, chunk_seq, calls, qry, adm, direct>>

\* store_document (INSERT ... RETURNING id, commit), then split_text and the
\* chunk metadata.
StoreDocument(p) ==
    /\ qry = NoneVal
    /\ ing[p].pc = "store_document"
    /\ \E outcome \in StoreOutcomes :
         LET st == ing[p] IN
         IF outcome = "connect"
         THEN /\ ing' = [ing EXCEPT ![p] = Raised(st, "store_error")]
              /\ UNCHANGED <<documents, doc_seq>>
         ELSE IF outcome = "execute" \/ ~DocumentsTable
         THEN /\ ing' = [ing EXCEPT ![p] = RaisedHolding(st, "store_error")]
              /\ UNCHANGED <<documents, doc_seq>>
         ELSE /\ doc_seq' = doc_seq + 1
              /\ documents' = documents \cup {DocumentRow(doc_seq + 1, st.file, st.org)}
              /\ ing' = [ing EXCEPT ![p] =
                           [st EXCEPT !.pc = "embed", !.doc_id = doc_seq + 1]]
    /\ UNCHANGED <<chunks, chunk_seq, calls, qry, adm, direct>>

\* What the provider's call for a batch of n texts gives create_embeddings: one
\* vector per text, an exception (create_embeddings then returns []), a
\* response with one vector too few, or one with the last vector twice.
ProviderOutcomes == {"ok", "error", "short", "long"}

create_embeddings(texts, outcome) ==
    CASE outcome = "ok" -> [k \in 1..Len(texts) |-> EmbeddingOf(texts[k])]
      [] outcome = "error" -> <<>>
      [] outcome = "short" -> [k \in 1..(Len(texts) - 1) |-> EmbeddingOf(texts[k])]
      [] OTHER -> [k \in 1..(Len(texts) + 1) |->
                     EmbeddingOf(texts[Min(k, Len(texts))])]

\* `if not all_embeddings` in place of the comparison of the counts.
CountMismatchEmptyOnly(embeddings, cs) == Len(embeddings) = 0

\* The test after the embedding loop.
CountMismatch(embeddings, cs) == Len(embeddings) # Len(cs)

\* The embedding loop writing the chunk rows of each batch as soon as the
\* batch is embedded.
CreateEmbeddingsStoringBatch(p) ==
    /\ qry = NoneVal
    /\ ing[p].pc = "embed"
    /\ \E outcome \in ProviderOutcomes :
         LET st == ing[p]
             cs == split_text(ExtractText(st.file))
             batch == SubSeq(cs, st.i + 1, Min(st.i + batch_size, Len(cs)))
             all == st.all_embeddings \o create_embeddings(batch, outcome)
             last == st.i + batch_size >= Len(cs)
             rows == {r \in ChunkRows(st.doc_id, st.file, cs, all, chunk_seq) :
                        r.chunk_index >= st.i}
         IN /\ chunks' = chunks \cup rows
            /\ chunk_seq' = chunk_seq + Len(all)
            /\ ing' = [ing EXCEPT ![p] =
                         IF ~last
                         THEN [st EXCEPT !.i = @ + batch_size, !.all_embeddings = all]
                         ELSE IF CountMismatch(all, cs)
                         THEN Returned([st EXCEPT !.all_embeddings = all], "False", "mismatch")
                         ELSE Returned([st EXCEPT !.all_embeddings = all], "True", "ok")]
    /\ UNCHANGED <<documents, doc_seq, calls, qry, adm, direct>>

\* One turn of the embedding loop; after the last one, the count test.
CreateEmbeddings(p) ==
    /\ qry = NoneVal
    /\ ing[p].pc = "embed"
    /\ \E outcome \in ProviderOutcomes :
         LET st == ing[p]
             cs == split_text(ExtractText(st.file))
             batch == SubSeq(cs, st.i + 1, Min(st.i + batch_size, Len(cs)))
             all == st.all_embeddings \o create_embeddings(batch, outcome)
             last == st.i + batch_size >= Len(cs)
         IN ing' = [ing EXCEPT ![p] =
                      IF ~last
                      THEN [st EXCEPT !.i = @ + batch_size, !.all_embeddings = all]
                      ELSE IF CountMismatch(all, cs)
                      THEN Returned([st EXCEPT !.all_embeddings = all], "False", "mismatch")
                      ELSE [st EXCEPT !.pc = "store_chunks", !.all_embeddings = all]]
    /\ UNCHANGED <<documents, chunks, doc_seq, chunk_seq, calls, qry, adm, direct>>

\* A chunks row may be inserted without the check of its doc_id.
NoForeignKey(doc_id) == TRUE

\* doc_id INTEGER REFERENCES documents(id): the insert of a chunks row fails
\* unless a documents row has that id.
ForeignKeyHolds(doc_id) == \E d \in documents : d.id = doc_id

\* store_chunks on a connection in autocommit mode: every insert that
\* succeeds is committed at once.
StoreChunksAutocommit(p) ==
    /\ qry = NoneVal
    /\ ing[p].pc = "store_chunks"
    /\ LET st == ing[p]
           cs == split_text(ExtractText(st.file))
           rows == ChunkRows(st.doc_id, st.file, cs, st.all_embeddings, chunk_seq)
           n == Cardinality(rows)
       IN \E connected \in BOOLEAN, done \in 0..n :
            IF ~connected
            THEN /\ ing' = [ing EXCEPT ![p] = Raised(st, "store_error")]
                 /\ UNCHANGED <<chunks, chunk_seq>>
            ELSE IF ~ChunksTable
            THEN /\ ing' = [ing EXCEPT ![p] = RaisedHolding(st, "store_error")]
                 /\ UNCHANGED <<chunks, chunk_seq>>
            ELSE IF ~ForeignKeyHolds(st.doc_id)
            THEN /\ ing' = [ing EXCEPT ![p] = RaisedHolding(st, "store_error")]
                 /\ chunk_seq' = chunk_seq + 1
                 /\ UNCHANGED chunks
            ELSE IF done < n
            THEN /\ ing' = [ing EXCEPT ![p] = RaisedHolding(st, "store_error")]
                 /\ chunk_seq' = chunk_seq + done
                 /\ chunks' = chunks \cup {r \in rows : r.chunk_index < done}
            ELSE /\ chunks' = chunks \cup rows
                 /\ chunk_seq' = chunk_seq + n
                 /\ ing' = [ing EXCEPT ![p] = Returned(st, "True", "ok")]
    /\ UNCHANGED <<documents, doc_seq, calls, qry, adm, direct>>

\* store_chunks: the inserts of one transaction and its commit.  `done` is how
\* many inserts succeed: all of them and the commit follows, fewer and the
\* exception leaves the transaction uncommitted (only the sequence has moved).
\* With no table chunks the first insert fails; with no documents row of that
\* id it fails after taking its id from the sequence.
StoreChunks(p) ==
    /\ qry = NoneVal
    /\ ing[p].pc = "store_chunks"
    /\ LET st == ing[p]
           cs == split_text(ExtractText(st.file))
           rows == ChunkRows(st.doc_id, st.file, cs, st.all_embeddings, chunk_seq)
           n == Cardinality(rows)
       IN \E connected \in BOOLEAN, done \in 0..n :
            IF ~connected
            THEN /\ ing' = [ing EXCEPT ![p] = Raised(st, "store_error")]
                 /\ UNCHANGED <<chunks, chunk_seq>>
            ELSE IF ~ChunksTable
            THEN /\ ing' = [ing EXCEPT ![p] = RaisedHolding(st, "store_error")]
                 /\ UNCHANGED <<chunks, chunk_seq>>
            ELSE IF ~ForeignKeyHolds(st.doc_id)
            THEN /\ ing' = [ing EXCEPT ![p] = RaisedHolding(st, "store_error")]
                 /\ chunk_seq' = chunk_seq + 1
                 /\ UNCHANGED chunks
            ELSE IF done < n
            THEN /\ ing' = [ing EXCEPT ![p] = RaisedHolding(st, "store_error")]
                 /\ chunk_seq' = chunk_seq + done
                 /\ UNCHANGED chunks
            ELSE /\ chunks' = chunks \cup rows
                 /\ chunk_seq' = chunk_seq + n
                 /\ ing' = [ing EXCEPT ![p] = Returned(st, "True", "ok")]
    /\ UNCHANGED <<documents, doc_seq, calls, qry, adm, direct>>

\* ------------------------------------------------------------------------
\* OceanRAGRetriever.

\* 10000 * cos of the angle between two vectors.
Cosine(a, b) ==
    LET d == IF a >= b THEN a - b ELSE b - a
        t == IF d > 4 THEN 8 - d ELSE d
    IN CASE t = 0 -> 10000
         [] t = 1 -> 7071
         [] t = 2 -> 0
         [] t = 3 -> -7071
         [] OTHER -> -10000

\* 1 - (c.embedding <=> query), in units of 1/10000: <=> is the cosine
\* distance, 1 - cos.
SimilarityScore(embedding, query_embedding) ==
    10000 - (10000 - Cosine(embedding, query_embedding))

\* create_query_embedding falling back to a zero vector.
create_query_embedding_fallback(question, faults) ==
    IF "embedding" \in faults THEN <<0>> ELSE <<EmbeddingOf(question)>>

\* create_query_embedding: the provider's vector as a one-element list of
\* coordinates, [] when the call fails.
create_query_embedding(question, faults) ==
    IF "embedding" \in faults THEN <<>> ELSE <<EmbeddingOf(question)>>

\* metadata.update(chunk_metadata); metadata.update(doc_metadata): a key the
\* document's dict holds wins.  geographic_focus is absent from a dict when
\* NoneVal.
MergedMetadata(c, d) ==
    [doc_type |-> d.metadata.doc_type,
     geographic_focus |-> IF d.metadata.geographic_focus # NoneVal
                          THEN d.metadata.geographic_focus
                          ELSE c.metadata.geographic_focus,
     topics |-> d.metadata.topics,
     chunk_index |-> c.metadata.chunk_index,
     source_file |-> c.metadata.source_file]

\* FROM chunks c JOIN documents d ON c.doc_id = d.id, with the selected
\* columns, as SearchResult.  The statement has no WHERE clause.
JoinedRows(query_embedding) ==
    {[content |-> c.content, doc_id |-> c.doc_id, chunk_id |-> c.id,
      filename |-> d.filename, organization |-> d.organization,
      doc_type |-> d.doc_type,
      similarity_score |-> SimilarityScore(c.embedding, query_embedding[1]),
      metadata |-> MergedMetadata(c, d)] :
        <<c, d>> \in {x \in chunks \X documents : x[1].doc_id = x[2].id}}

\* ORDER BY similarity_score (ascending) LIMIT n.
RECURSIVE OrderedLimitAscending(_, _)
OrderedLimitAscending(rows, n) ==
    IF n <= 0 \/ rows = {} THEN {<<>>}
    ELSE LET top == {r \in rows :
                       \A o \in rows : o.similarity_score >= r.similarity_score}
         IN UNION {{<<r>> \o rest : rest \in OrderedLimitAscending(rows \ {r}, n - 1)} :
                     r \in top}

\* ORDER BY similarity_score DESC LIMIT n: every list the store may return;
\* rows of equal score come in any order.
RECURSIVE OrderedLimit(_, _)
OrderedLimit(rows, n) ==
    IF n <= 0 \/ rows = {} THEN {<<>>}
    ELSE LET top == {r \in rows :
                       \A o \in rows : o.similarity_score <= r.similarity_score}
         IN UNION {{<<r>> \o rest : rest \in OrderedLimit(rows \ {r}, n - 1)} :
                     r \in top}

\* search_similar_chunks: [raised, results, open_conns] for every list the
\* store may return.  get_db_connection and conn.cursor() stand before the
\* try; the threshold and the three filters are not used; the finally clause
\* closes the connection, so that none is left open (open_conns).
search_similar_chunks(query_embedding, limit, similarity_threshold, doc_type_filter, geographic_filter, topic_filter, faults) ==
    IF "connect" \in faults
    THEN {[raised |-> TRUE, results |-> <<>>, open_conns |-> 0]}
    ELSE IF "execute" \in faults \/ ~(DocumentsTable /\ ChunksTable)
    THEN {[raised |-> FALSE, results |-> <<>>, open_conns |-> 0]}
    ELSE {[raised |-> FALSE, results |-> rs, open_conns |-> 0] :
            rs \in OrderedLimit(JoinedRows(query_embedding), limit)}

\* A chunk text longer than those of the files above.
LongContent ==
    "Seagrass meadows in the Baltic Sea store carbon in their sediments and shelter juvenile fish."

\* len() of the strings that go into a context block.
StrLen(s) ==
    CASE s = "baltic_seagrass_report.pdf" -> 26
      [] s = "ESG_Arctic_Plastic.txt" -> 22
      [] s = "data.csv" -> 8
      [] s = "big_report.txt" -> 14
      [] s \in {BigReportSegments[1]} -> 13000
      [] s \in {BigReportSegments[2]} -> 8000
      [] s = "seagrass meadows" -> 16
      [] s = "baltic nutrients" -> 16
      [] s = "arctic plastic" -> 14
      [] s = "a,b,c" -> 5
      [] s = LongContent -> 93
      [] s = NoneVal -> 4
      [] OTHER -> 0

\* len(f"[Source: {filename} - {organization}]\n{content}\n") // 4
EstimatedTokens(r) ==
    (9 + StrLen(r.filename) + 3 + StrLen(r.organization) + 2 + StrLen(r.content) + 1)
        \div 4

\* The loop with `continue` where prepare_context has `break`.
RECURSIVE ContextPartsSkipping(_, _, _, _)
ContextPartsSkipping(search_results, k, total_length, max_tokens) ==
    IF k > Len(search_results) THEN <<>>
    ELSE IF total_length + EstimatedTokens(search_results[k]) > max_tokens
    THEN ContextPartsSkipping(search_results, k + 1, total_length, max_tokens)
    ELSE <<[filename |-> search_results[k].filename,
            organization |-> search_results[k].organization,
            content |-> search_results[k].content]>>
         \o ContextPartsSkipping(search_results, k + 1,
                                 total_length + EstimatedTokens(search_results[k]),
                                 max_tokens)

\* The loop of prepare_context from result k on: the blocks appended.
RECURSIVE ContextParts(_, _, _, _)
ContextParts(search_results, k, total_length, max_tokens) ==
    IF k > Len(search_results) THEN <<>>
    ELSE IF total_length + EstimatedTokens(search_results[k]) > max_tokens THEN <<>>
    ELSE <<[filename |-> search_results[k].filename,
            organization |-> search_results[k].organization,
            content |-> search_results[k].content]>>
         \o ContextParts(search_results, k + 1,
                         total_length + EstimatedTokens(search_results[k]), max_tokens)

\* prepare_context.  A context string is the sentinel or the blocks joined
\* by "\n---\n"; no block at all is the empty string.
NoRelevantInformation == [sentinel |-> TRUE, parts |-> <<>>]
EmptyString == [sentinel |-> FALSE, parts |-> <<>>]

\* prepare_context returning the sentinel whenever no block was appended.
prepare_context_sentinel_for_no_block(search_results, max_tokens) ==
    IF ContextParts(search_results, 1, 0, max_tokens) = <<>> THEN NoRelevantInformation
    ELSE [sentinel |-> FALSE,
          parts |-> ContextParts(search_results, 1, 0, max_tokens)]

prepare_context(search_results, max_tokens) ==
    IF search_results = <<>> THEN NoRelevantInformation
    ELSE [sentinel |-> FALSE,
          parts |-> ContextParts(search_results, 1, 0, max_tokens)]

default_max_tokens == 3000

\* generate_response: open() and format() stand before the try, the chat
\* call inside it.
generate_response(question, context, faults) ==
    IF "template_unreadable" \in faults \/ "template_malformed" \in faults
    THEN [raised |-> TRUE, answer |-> NoneVal, usage |-> NoneVal]
    ELSE IF "llm" \in faults
    THEN [raised |-> FALSE, answer |-> "Error generating response", usage |-> {}]
    ELSE [raised |-> FALSE, answer |-> "generated answer", usage |-> {"total_tokens"}]

\* round(x, 3) of a score in units of 1/10000, in the same units.
Round3(x) ==
    IF x >= 0 THEN ((x + 5) \div 10) * 10 ELSE -(((-x + 5) \div 10) * 10)

\* One entry of the sources list.
Source(r) ==
    [filename |-> r.filename, organization |-> r.organization,
     doc_type |-> r.doc_type, similarity_score |-> Round3(r.similarity_score),
     geographic_focus |-> r.metadata.geographic_focus,
     topics |-> r.metadata.topics]

\* query() listing as sources only the results that went into the context.
PackagedFromContext(args, found, faults) ==
    LET context == prepare_context(found.results, default_max_tokens)
        response_data == generate_response(args.question, context, faults)
    IN IF response_data.raised
       THEN [args |-> args, faults |-> faults, outcome |-> "raised",
             invoked |-> {"create_query_embedding", "search_similar_chunks",
                          "prepare_context", "generate_response"},
             searched |-> <<found>>, response |-> <<>>]
       ELSE [args |-> args, faults |-> faults, outcome |-> "returned",
             invoked |-> {"create_query_embedding", "search_similar_chunks",
                          "prepare_context", "generate_response"},
             searched |-> <<found>>,
             response |->
               <<[answer |-> response_data.answer,
                  sources |-> [k \in 1..Len(context.parts) |-> Source(found.results[k])],
                  context |-> context,
                  metadata |->
                    <<[question |-> args.question,
                       results_count |-> Len(context.parts),
                       model_usage |-> response_data.usage,
                       filters_applied |->
                         [doc_type |-> args.doc_type_filter,
                          geographic |-> args.geographic_filter,
                          topic |-> args.topic_filter]]>>]>>]

\* The result of query() once search_similar_chunks has returned `found`.
Packaged(args, found, faults) ==
    LET context == prepare_context(found.results, default_max_tokens)
        response_data == generate_response(args.question, context, faults)
    IN IF response_data.raised
       THEN [args |-> args, faults |-> faults, outcome |-> "raised",
             invoked |-> {"create_query_embedding", "search_similar_chunks",
                          "prepare_context", "generate_response"},
             searched |-> <<found>>, response |-> <<>>]
       ELSE [args |-> args, faults |-> faults, outcome |-> "returned",
             invoked |-> {"create_query_embedding", "search_similar_chunks",
                          "prepare_context", "generate_response"},
             searched |-> <<found>>,
             response |->
               <<[answer |-> response_data.answer,
                  sources |-> [k \in 1..Len(found.results) |-> Source(found.results[k])],
                  context |-> context,
                  metadata |->
                    <<[question |-> args.question,
                       results_count |-> Len(found.results),
                       model_usage |-> response_data.usage,
                       filters_applied |->
                         [doc_type |-> args.doc_type_filter,
                          geographic |-> args.geographic_filter,
                          topic |-> args.topic_filter]]>>]>>]

\* query(): every result the call may have, with the call's arguments and
\* what failed during it.  `searched` holds what
\* search_similar_chunks gave when it was called, `response` the returned
\* dict when one is returned; the metadata dict is <<>> when empty.
query(args, faults) ==
    LET query_embedding == create_query_embedding(args.question, faults) IN
    IF query_embedding = <<>>
    THEN {[args |-> args, faults |-> faults, outcome |-> "returned",
           invoked |-> {"create_query_embedding"}, searched |-> <<>>,
           response |-> <<[answer |-> "Error creating query embedding",
                           sources |-> <<>>, context |-> EmptyString,
                           metadata |-> <<>>]>>]}
    ELSE {IF found.raised
          THEN [args |-> args, faults |-> faults, outcome |-> "raised",
                invoked |-> {"create_query_embedding", "search_similar_chunks"},
                searched |-> <<found>>, response |-> <<>>]
          ELSE Packaged(args, found, faults) :
            found \in search_similar_chunks(query_embedding, args.max_results,
                        args.similarity_threshold, args.doc_type_filter,
                        args.geographic_filter, args.topic_filter, faults)}

\* Bound: the largest max_results asked for.
MaxResults == 2

DefaultArgs ==
    [question |-> "What are seagrass restoration methods?",
     max_results |-> MaxResults, similarity_threshold |-> 0,
     doc_type_filter |-> NoneVal, geographic_filter |-> NoneVal,
     topic_filter |-> NoneVal]

\* The calls of query() made: the defaults, and each argument changed alone.
QueryArgs ==
    {DefaultArgs,
     [DefaultArgs EXCEPT !.max_results = 1],
     [DefaultArgs EXCEPT !.similarity_threshold = 5000],
     [DefaultArgs EXCEPT !.doc_type_filter = "sustainability_report"],
     [DefaultArgs EXCEPT !.geographic_filter = "Arctic Ocean"],
     [DefaultArgs EXCEPT !.topic_filter = "marine_pollution"]}

\* What fails during one query() call.
FaultSets ==
    {{}, {"embedding"}, {"connect"}, {"execute"}, {"template_unreadable"},
     {"template_malformed"}, {"llm"}, {"execute", "llm"}}

\* A query() call that keeps a history row for the question in documents.
QueryKeepingHistory ==
    /\ qry = NoneVal
    /\ \E args \in QueryArgs, faults \in FaultSets :
         \E result \in query(args, faults) :
           /\ qry' = <<result>>
           /\ documents' = IF result.searched = <<>> THEN documents
                           ELSE documents \cup
                                  {[id |-> doc_seq + 1, filename |-> args.question,
                                    doc_type |-> "question", organization |-> NoneVal,
                                    file_size |-> 0, metadata |-> <<>>]}
           /\ doc_seq' = IF result.searched = <<>> THEN doc_seq ELSE doc_seq + 1
    /\ UNCHANGED <<chunks, chunk_seq, ing, calls, adm, direct>>

\* One query() call, from the command line or the web interface.
Query ==
    /\ qry = NoneVal
    /\ \E args \in QueryArgs, faults \in FaultSets :
         \E result \in query(args, faults) : qry' = <<result>>
    /\ UNCHANGED <<documents, chunks, doc_seq, chunk_seq, ing, calls, adm, direct>>

\* The caller has taken the result (or the exception).
QueryDone ==
    /\ qry # NoneVal
    /\ qry' = NoneVal
    /\ UNCHANGED <<documents, chunks, doc_seq, chunk_seq, ing, calls, adm, direct>>

Ingest(p) ==
    \/ StartFile(p)
    \/ StartDir(p)
    \/ DirLoop(p)
    \/ DocumentExists(p)
    \/ StoreDocument(p)
    \/ CreateEmbeddings(p)
    \/ StoreChunks(p)

Next ==
    \/ \E p \in Workers : Ingest(p)
    \/ Query
    \/ QueryDone

Spec == Init /\ [][Next]_vars

\* One ingestor alone: every call starts after the one before it has ended.
NextSeq ==
    \/ Ingest("w1")
    \/ Query
    \/ QueryDone

SpecSeq == Init /\ [][NextSeq]_vars

\* One ingestor at work on the long report: two embedding batches a call.
NextBatch ==
    \/ StartLongFile("w1")
    \/ DocumentExists("w1")
    \/ StoreDocument("w1")
    \/ CreateEmbeddings("w1")
    \/ StoreChunks("w1")

SpecBatch == Init /\ [][NextBatch]_vars

\* One ingestor at work on the further files, and the retriever.
NextOther ==
    \/ StartOtherFile("w1")
    \/ DocumentExists("w1")
    \/ StoreDocument("w1")
    \/ CreateEmbeddings("w1")
    \/ StoreChunks("w1")
    \/ Query
    \/ QueryDone

SpecOther == Init /\ [][NextOther]_vars

\* ------------------------------------------------------------------------
\* reset_db.py, run by an administrator while ingestors may be at work.  Its
\* connection is in autocommit mode: every statement is a step of its own.

\* Bound: the runs of reset_db.py.
MaxResets == 1

\* DROP TABLE IF EXISTS chunks CASCADE
DropChunks ==
    /\ qry = NoneVal
    /\ adm.pc = "idle"
    /\ adm.runs < MaxResets
    /\ adm' = [pc |-> "dropped_chunks", runs |-> adm.runs + 1]
    /\ chunks' = {}
    /\ chunk_seq' = 0
    /\ UNCHANGED <<documents, doc_seq, ing, calls, qry, direct>>

\* DROP TABLE IF EXISTS documents CASCADE
DropDocuments ==
    /\ qry = NoneVal
    /\ adm.pc = "dropped_chunks"
    /\ adm' = [adm EXCEPT !.pc = "dropped_documents"]
    /\ documents' = {}
    /\ doc_seq' = 0
    /\ UNCHANGED <<chunks, chunk_seq, ing, calls, qry, direct>>

\* create_database_and_tables: CREATE TABLE IF NOT EXISTS documents
CreateDocuments ==
    /\ qry = NoneVal
    /\ adm.pc = "dropped_documents"
    /\ adm' = [adm EXCEPT !.pc = "created_documents"]
    /\ UNCHANGED <<documents, chunks, doc_seq, chunk_seq, ing, calls, qry, direct>>

\* create_database_and_tables: CREATE TABLE IF NOT EXISTS chunks
CreateChunks ==
    /\ qry = NoneVal
    /\ adm.pc = "created_documents"
    /\ adm' = [adm EXCEPT !.pc = "idle"]
    /\ UNCHANGED <<documents, chunks, doc_seq, chunk_seq, ing, calls, qry, direct>>

reset_tables ==
    \/ DropChunks
    \/ DropDocuments
    \/ CreateDocuments
    \/ CreateChunks

\* The ingestors and the administrator.
NextAdmin ==
    \/ \E p \in Workers : Ingest(p)
    \/ reset_tables

SpecAdmin == Init /\ [][NextAdmin]_vars

\* ------------------------------------------------------------------------
\* Methods called on their own, with arguments drawn from small sets.

\* Bound: the longest list of search results given to prepare_context.
MaxBlocks == 3

\* Search results as prepare_context reads them: filename, organization and
\* content.  Their blocks are 32, 61 and 138 characters long.
Blocks ==
    {[filename |-> "data.csv", organization |-> NoneVal, content |-> "a,b,c"],
     [filename |-> "baltic_seagrass_report.pdf", organization |-> NoneVal,
      content |-> "seagrass meadows"],
     [filename |-> "baltic_seagrass_report.pdf", organization |-> NoneVal,
      content |-> LongContent]}

\* The values of max_tokens tried, the default among them.
Budgets == {0, 7, 8, 15, 22, 23, 34, 42, 49, default_max_tokens}

\* All lists over a set, up to a length.
ListsOf(S, n) == UNION {[1..k -> S] : k \in 0..n}

PrepareContextCalls ==
    {[method |-> "prepare_context",
      args |-> [search_results |-> rs, max_tokens |-> b], result |-> <<>>] :
        rs \in ListsOf(Blocks, MaxBlocks), b \in Budgets}

\* retriever.prepare_context(search_results, max_tokens)
PrepareContext ==
    /\ direct # <<>>
    /\ direct[1].method = "prepare_context"
    /\ direct[1].result = <<>>
    /\ direct' = <<[direct[1] EXCEPT !.result =
                     <<prepare_context(direct[1].args.search_results,
                                       direct[1].args.max_tokens)>>]>>
    /\ UNCHANGED <<documents, chunks, doc_seq, chunk_seq, ing, calls, qry, adm>>

\* Bound: the words of a filename given to extract_metadata_from_filename.
MaxWords == 3

\* The words the filenames are made of, by their characters.
Words ==
    {Chars(w) : w \in {"ESG", "Annual", "esrs", "baltic", "ARCTIC", "North Sea",
                       "seagrass", "Plastic", "report"}}

\* "_".join(ws)
RECURSIVE Joined(_)
Joined(ws) ==
    IF Len(ws) = 1 THEN ws[1]
    ELSE ws[1] \o <<"_">> \o Joined(Tail(ws))

\* The filenames tried: one to MaxWords words joined by "_", and ".pdf".
FileNames ==
    {Joined(ws) \o Chars(".pdf") : ws \in ListsOf(Words, MaxWords) \ {<<>>}}

ExtractMetadataCalls ==
    {[method |-> "extract_metadata_from_filename",
      args |-> [filename |-> f], result |-> <<>>] : f \in FileNames}

\* ingestor.extract_metadata_from_filename(filename)
ExtractMetadata ==
    /\ direct # <<>>
    /\ direct[1].method = "extract_metadata_from_filename"
    /\ direct[1].result = <<>>
    /\ direct' = <<[direct[1] EXCEPT !.result =
                     <<extract_metadata_from_filename(direct[1].args.filename)>>]>>
    /\ UNCHANGED <<documents, chunks, doc_seq, chunk_seq, ing, calls, qry, adm>>

DirectCalls == PrepareContextCalls \cup ExtractMetadataCalls

InitDirect ==
    /\ documents = {}
    /\ chunks = {}
    /\ doc_seq = 0
    /\ chunk_seq = 0
    /\ ing = [p \in Workers |-> IdleIngestor]
    /\ calls = 0
    /\ qry = NoneVal
    /\ adm = IdleReset
    /\ \E c \in DirectCalls : direct = <<c>>

NextDirect ==
    \/ PrepareContext
    \/ ExtractMetadata

SpecDirect == InitDirect /\ [][NextDirect]_vars

\* ------------------------------------------------------------------------
\* Properties.

\* The rows of documents a call for file f looks for.
RowsFor(f) == DocRows(f, FileSize(f))

\* C1: calls in sequence: a call for a (filename, file_size) that an earlier
\* call has stored, with the store reachable, returns True as a skip, leaves
\* documents and chunks as they were, and the pair has exactly one row.
IdempotentIngestion ==
    [][\A p \in Workers :
         (/\ ing[p].pc = "exists"
          /\ ing'[p] # ing[p]
          /\ RowsFor(ing[p].file) # {}
          /\ ing'[p].ret # "raised")
         => /\ ing'[p].ret = "True"
            /\ ing'[p].why = "skip"
            /\ documents' = documents
            /\ chunks' = chunks
            /\ Cardinality(RowsFor(ing[p].file)') = 1]_vars

\* The second of two calls for the same file has returned as a skip, and the
\* document has the chunks of the first.
SecondCallSkipped ==
    /\ calls = 2
    /\ ing["w1"].file = "baltic_seagrass_report.pdf"
    /\ ing["w1"].why = "skip"
    /\ Cardinality(RowsFor("baltic_seagrass_report.pdf")) = 1
    /\ Cardinality(chunks) = 2

\* C2: whatever the interleaving of the calls, no (filename, file_size) has
\* two rows in documents.
DedupUnderConcurrency ==
    \A f \in Paths : Cardinality(RowsFor(f)) <= 1

\* C3: the chunks of a document that has N > 0 of them have the indexes
\* 0..N-1, each once, and the chunk of index k holds the k-th segment of the
\* document's text.
ChunkContiguity ==
    \A d \in documents :
        LET cs == ChunksOf(d.id)
            N == Cardinality(cs)
            segments == split_text(ExtractText(d.filename))
        IN N > 0 =>
             /\ {c.chunk_index : c \in cs} = 0..(N - 1)
             /\ \A k \in 0..(N - 1) :
                  /\ Cardinality({c \in cs : c.chunk_index = k}) = 1
                  /\ \A c \in cs : c.chunk_index = k => c.content = segments[k + 1]

\* Two documents stored with their chunks, one of them with two chunks.
TwoDocumentsChunked ==
    /\ Cardinality(documents) = 2
    /\ \A d \in documents : ChunksOf(d.id) # {}
    /\ \E d \in documents : Cardinality(ChunksOf(d.id)) = 2

\* The embedding loop of p's call is over and gave a number of embeddings
\* other than the number of chunks.
EmbeddingCountDiffers(p) ==
    /\ ing[p].doc_id # 0
    /\ ing[p].pc # "embed"
    /\ Len(ing[p].all_embeddings) # Len(split_text(ExtractText(ing[p].file)))

\* C4: a call whose embeddings are not as many as its chunks has returned
\* False, its document row is in the store, and that document has no chunk.
EmbeddingCountMismatch ==
    \A p \in Workers :
        EmbeddingCountDiffers(p) =>
            /\ ing[p].ret = "False"
            /\ ChunksOf(ing[p].doc_id) = {}
            /\ \E d \in documents : d.id = ing[p].doc_id /\ d.filename = ing[p].file

\* A call for the two-chunk file got one embedding, while the other document
\* of the store has its chunk.
MismatchWithOneEmbedding ==
    \E p \in Workers :
        /\ EmbeddingCountDiffers(p)
        /\ Len(ing[p].all_embeddings) = 1
        /\ chunks # {}

\* C5: an ingest_directory that is over has attempted every supported file of
\* the directory and has reported its tally.
BatchIsolation ==
    \A p \in Workers :
        (ing[p].mode = "dir" /\ ing[p].pc = "idle")
        => /\ ing[p].attempted = ing[p].total
           /\ ing[p].summary = "complete"

\* A response dict with its four fields.
WellFormed(result) ==
    /\ Len(result.response) = 1
    /\ DOMAIN result.response[1] = {"answer", "sources", "context", "metadata"}

\* C6: whatever fails, query() returns a response with answer, sources,
\* context and metadata.
QueryNeverRaises ==
    qry # NoneVal => (qry[1].outcome = "returned" /\ WellFormed(qry[1]))

\* C7: when embedding the question fails, query() returns the error answer
\* with no sources, an empty context and empty metadata, and calls neither
\* search_similar_chunks nor generate_response.
EmbeddingFailureShortCircuit ==
    (qry # NoneVal /\ "embedding" \in qry[1].faults)
    => /\ qry[1].outcome = "returned"
       /\ WellFormed(qry[1])
       /\ qry[1].response[1].answer = "Error creating query embedding"
       /\ qry[1].response[1].sources = <<>>
       /\ qry[1].response[1].context = EmptyString
       /\ qry[1].response[1].metadata = <<>>
       /\ qry[1].invoked \cap {"search_similar_chunks", "generate_response"} = {}

\* The embedding of a question fails while the store holds chunks.
EmbeddingFailedOverChunks ==
    /\ qry # NoneVal
    /\ "embedding" \in qry[1].faults
    /\ chunks # {}

\* C8: search_similar_chunks, when connecting to the store or executing the
\* statement fails, returns the empty list and raises nothing.
SearchFailureContained ==
    (/\ qry # NoneVal
     /\ qry[1].searched # <<>>
     /\ qry[1].faults \cap {"connect", "execute"} # {})
    => /\ ~qry[1].searched[1].raised
       /\ qry[1].searched[1].results = <<>>

\* The results search_similar_chunks returned to the query() call.
Results == IF qry = NoneVal \/ qry[1].searched = <<>> THEN <<>>
           ELSE qry[1].searched[1].results

\* C9: every result matches each filter that was supplied, in its document's
\* columns or in its merged metadata.
FiltersApplied ==
    \A r \in Elements(Results) :
        /\ qry[1].args.doc_type_filter # NoneVal
           => (r.doc_type = qry[1].args.doc_type_filter
               \/ r.metadata.doc_type = qry[1].args.doc_type_filter)
        /\ qry[1].args.geographic_filter # NoneVal
           => r.metadata.geographic_focus = qry[1].args.geographic_filter
        /\ qry[1].args.topic_filter # NoneVal
           => qry[1].args.topic_filter \in Elements(r.metadata.topics)

\* C10: every result has a similarity_score of at least similarity_threshold.
SimilarityThreshold ==
    \A r \in Elements(Results) :
        r.similarity_score >= qry[1].args.similarity_threshold

\* The query() call reached search_similar_chunks and neither the connection
\* nor the statement failed.
Searched ==
    /\ qry # NoneVal
    /\ qry[1].searched # <<>>
    /\ qry[1].faults \cap {"connect", "execute"} = {}

AnswerFailureContained ==
    (qry # NoneVal /\ "generate_response" \in qry[1].invoked)
    => /\ qry[1].outcome = "returned"
       /\ "llm" \in qry[1].faults
            => /\ qry[1].response[1].answer = "Error generating response"
               /\ qry[1].response[1].metadata[1].model_usage = {}

\* C14: no Document row and no Chunk row is created for a file whose
\* extension is not .pdf, .txt or .md.
UnsupportedExtensionsSkipped ==
    /\ \A d \in documents : Suffix(d.filename) \in supported_extensions
    /\ \A c \in chunks : Suffix(c.metadata.source_file) \in supported_extensions

\* C15: a step that is a query() call, whatever its outcome, leaves the
\* Document rows, the Chunk rows and both id sequences as they were.
QueryIsReadOnly ==
    [][(qry = NoneVal /\ qry' # NoneVal)
       => /\ documents' = documents
          /\ chunks' = chunks
          /\ doc_seq' = doc_seq
          /\ chunk_seq' = chunk_seq]_vars

\* A query() call has returned results found in a store that holds rows.
QueryOverStoredRows ==
    /\ qry # NoneVal
    /\ qry[1].outcome = "returned"
    /\ Len(Results) > 0
    /\ documents # {}
    /\ chunks # {}

\* C16: after every step each Chunk row has the id of a stored Document row
\* in doc_id; a step that deletes a Document row leaves no Chunk row of that
\* document; a step of an ingestor leaves the doc_id of every stored chunk
\* as it was.
ChunkOwnership ==
    [][/\ \A c \in chunks' : \E d \in documents' : d.id = c.doc_id
       /\ \A d \in documents \ documents' :
            {c \in chunks' : c.doc_id = d.id} = {}
       /\ ing' # ing
            => \A c \in chunks, c2 \in chunks' :
                 c2.id = c.id => c2.doc_id = c.doc_id]_vars

\* reset_tables has dropped both tables after an ingestor had stored a
\* document and its chunks.
ResetDeletedIngestedDocument ==
    /\ adm.pc = "dropped_documents"
    /\ documents = {}
    /\ chunks = {}
    /\ \E p \in Workers : ing[p].pc = "idle" /\ ing[p].why = "ok" /\ ing[p].doc_id > 0

\* The cost of the first k blocks of a list: the sum of len(block) // 4.
RECURSIVE PrefixCost(_, _)
PrefixCost(rs, k) ==
    IF k = 0 THEN 0 ELSE PrefixCost(rs, k - 1) + EstimatedTokens(rs[k])

\* A prepare_context call that has returned.
ContextPrepared ==
    /\ direct # <<>>
    /\ direct[1].method = "prepare_context"
    /\ direct[1].result # <<>>

\* C12: prepare_context(results, B) returns the first n blocks in rank order,
\* where n is the length of the longest prefix whose blocks cost, at
\* len(block) // 4 each, B or less together; no block after the first one that
\* does not fit is included.
ContextBudgetBound ==
    ContextPrepared =>
      LET rs == direct[1].args.search_results
          B == direct[1].args.max_tokens
          parts == direct[1].result[1].parts
          n == Len(parts)
      IN /\ n <= Len(rs)
         /\ \A k \in 1..n :
              /\ parts[k].filename = rs[k].filename
              /\ parts[k].organization = rs[k].organization
              /\ parts[k].content = rs[k].content
         /\ \A k \in 0..Len(rs) : PrefixCost(rs, k) <= B <=> k <= n

\* A call in which a block is left out that would have fit after the blocks
\* included, because an earlier block did not fit.
LaterBlockWouldFit ==
    /\ ContextPrepared
    /\ LET rs == direct[1].args.search_results
           n == Len(direct[1].result[1].parts)
       IN /\ n >= 1
          /\ n + 2 <= Len(rs)
          /\ PrefixCost(rs, n) + EstimatedTokens(rs[n + 2]) <= direct[1].args.max_tokens

\* An extract_metadata_from_filename call that has returned.
MetadataExtracted ==
    /\ direct # <<>>
    /\ direct[1].method = "extract_metadata_from_filename"
    /\ direct[1].result # <<>>

\* The string occurs in the filename, letter case apart.
Occurs(term, filename) ==
    LET t == Chars(term) IN
    \E i \in 0..(Len(filename) - Len(t)) :
      \A k \in 1..Len(t) : LowerChar(filename[i + k]) = t[k]

\* The doc_type rules in declared order: keywords and value.
DocTypeRules ==
    << <<{"sustainability", "esg", "csr"}, "sustainability_report">>,
       <<{"annual", "quarterly", "financial"}, "company_report">>,
       <<{"esrs", "european sustainability reporting"}, "esrs_document">> >>

\* C17: doc_type is the value of the first doc_type rule, in declared order,
\* one of whose keywords occurs in the filename letter case apart, and
\* "unknown" when none does; geographic_focus is the region of the first
\* region rule whose keyword occurs, and absent when none does;
\* baltic_seagrass_report.pdf gives "unknown", "Baltic Sea" and topics with
\* "seagrass_restoration".
FilenameMetadataRules ==
    MetadataExtracted =>
      LET fn == direct[1].args.filename
          m == direct[1].result[1]
          matches(i) == \E t \in DocTypeRules[i][1] : Occurs(t, fn)
          region(i) == Occurs(GeographicTerms[i][1], fn)
      IN /\ \A i \in 1..Len(DocTypeRules) :
              (matches(i) /\ \A j \in 1..(i - 1) : ~matches(j))
                => m.doc_type = DocTypeRules[i][2]
         /\ (\A i \in 1..Len(DocTypeRules) : ~matches(i)) => m.doc_type = "unknown"
         /\ \A i \in 1..Len(GeographicTerms) :
              (region(i) /\ \A j \in 1..(i - 1) : ~region(j))
                => m.geographic_focus = GeographicTerms[i][2]
         /\ (\A i \in 1..Len(GeographicTerms) : ~region(i))
              => m.geographic_focus = NoneVal
         /\ fn = Chars("baltic_seagrass_report.pdf")
              => /\ m.doc_type = "unknown"
                 /\ m.geographic_focus = "Baltic Sea"
                 /\ "seagrass_restoration" \in Elements(m.topics)

\* The call for ARCTIC_ESG_Annual.pdf has returned: upper-case keywords, two
\* doc_type rules matching, one region.
UpperCaseTwoRules ==
    /\ MetadataExtracted
    /\ direct[1].args.filename
         = Joined(<<Chars("ARCTIC"), Chars("ESG"), Chars("Annual")>>) \o Chars(".pdf")
    /\ direct[1].result[1].doc_type = "sustainability_report"
    /\ direct[1].result[1].geographic_focus = "Arctic Ocean"

\* C18: a step in which an ingestor receives embeddings starts from a state
\* where the Document row of its call is stored and has no chunk; a step that
\* writes Chunk rows is taken by an ingestor whose Document row is stored,
\* whose embedding loop has covered the whole chunk list, and every row
\* written carries that document's id and the embedding received for its
\* index.
PersistenceOrder ==
    [][/\ \A p \in Workers :
            ing'[p].all_embeddings # ing[p].all_embeddings
              /\ ing'[p].all_embeddings # <<>>
            => /\ ing[p].pc = "embed"
               /\ \E d \in documents : d.id = ing[p].doc_id
               /\ ChunksOf(ing[p].doc_id) = {}
       /\ chunks' \ chunks # {}
            => \E p \in Workers :
                 LET st == ing[p]
                     cs == split_text(ExtractText(st.file))
                 IN /\ st.pc = "store_chunks"
                    /\ \E d \in documents : d.id = st.doc_id
                    /\ st.i + batch_size >= Len(cs)
                    /\ Len(st.all_embeddings) = Len(cs)
                    /\ \A c \in chunks' \ chunks :
                         /\ c.doc_id = st.doc_id
                         /\ c.embedding = st.all_embeddings[c.chunk_index + 1]]_vars

\* The long report has been stored with all its chunks, after two batches.
LongReportStored ==
    /\ ing["w1"].pc = "idle"
    /\ ing["w1"].why = "ok"
    /\ ing["w1"].file = "long_report.txt"
    /\ Cardinality(ChunksOf(ing["w1"].doc_id)) = batch_size + 1

\* C19: every stored chunk carries the embedding of its own text.
EmbeddingAlignment ==
    \A c \in chunks : c.embedding = EmbeddingOf(c.content)

\* C20: once document_exists, store_document, store_chunks or
\* search_similar_chunks has returned or raised, the connection it opened is
\* closed: no ingestor and no query() call holds an open one.
StoreHandlesReleased ==
    /\ \A p \in Workers : ing[p].open_conns = 0
    /\ (qry # NoneVal /\ qry[1].searched # <<>>) => qry[1].searched[1].open_conns = 0

\* A query() call has returned a response built from a search.
Responded ==
    /\ qry # NoneVal
    /\ qry[1].outcome = "returned"
    /\ qry[1].searched # <<>>

\* C21: a response of query() built after the question was embedded lists one
\* source per search result, in rank order and with that result's fields;
\* results_count is the length of sources and filters_applied holds the
\* caller's three filter values, whether or not the results went into the
\* context.
ResponsePackaging ==
    Responded =>
      LET rs == Results
          response == qry[1].response[1]
          args == qry[1].args
      IN /\ Len(response.sources) = Len(rs)
         /\ \A k \in 1..Len(rs) :
              /\ response.sources[k].filename = rs[k].filename
              /\ response.sources[k].organization = rs[k].organization
              /\ response.sources[k].doc_type = rs[k].doc_type
              /\ response.sources[k].similarity_score = Round3(rs[k].similarity_score)
              /\ response.sources[k].geographic_focus = rs[k].metadata.geographic_focus
              /\ response.sources[k].topics = rs[k].metadata.topics
         /\ response.metadata[1].results_count = Len(response.sources)
         /\ response.metadata[1].question = args.question
         /\ response.metadata[1].filters_applied
              = [doc_type |-> args.doc_type_filter,
                 geographic |-> args.geographic_filter,
                 topic |-> args.topic_filter]

\* A response with two sources of which the token budget let none into the
\* context, to a call that passed a filter.
SourcesBeyondContext ==
    /\ Responded
    /\ Len(qry[1].response[1].sources) = 2
    /\ Len(qry[1].response[1].context.parts) < 2
    /\ qry[1].args.topic_filter # NoneVal

\* A Document row without chunks whose ingest_document call is over: no
\* ingestor is between store_document and the end of store_chunks for it.
Orphaned(d) ==
    /\ d \in documents
    /\ {c \in chunks : c.doc_id = d.id} = {}
    /\ \A p \in Workers :
         ing[p].pc \in {"embed", "store_chunks"} => ing[p].doc_id # d.id

\* C22: a Document row left without chunks by a failed call stays, and stays
\* without chunks, after every step; a call for its (filename, file_size)
\* whose document_exists does not raise returns True as a skip and leaves
\* documents and chunks as they were.
OrphanNeverRepaired ==
    [][\A d \in documents :
         Orphaned(d)
         => /\ d \in documents'
            /\ {c \in chunks' : c.doc_id = d.id} = {}
            /\ \A p \in Workers :
                 (/\ ing[p].pc = "exists"
                  /\ ing'[p] # ing[p]
                  /\ ing[p].file = d.filename
                  /\ FileSize(ing[p].file) = d.file_size
                  /\ ing'[p].ret # "raised")
                 => /\ ing'[p].ret = "True"
                    /\ ing'[p].why = "skip"
                    /\ documents' = documents
                    /\ chunks' = chunks]_vars

\* A call failed on the embedding count after its Document row was stored,
\* and a later call for the same file has returned as a skip.
OrphanSkipped ==
    \E d \in documents :
      /\ Orphaned(d)
      /\ ing["w1"].file = d.filename /\ ing["w1"].why = "mismatch"
      /\ ing["w2"].file = d.filename /\ ing["w2"].why = "skip"
      /\ Cardinality(documents) = 1

\* C23: in every state of the store, and so in every state a query() call
\* reads, each Document row has no chunk or as many chunks as its text has
\* segments, and every chunk a search returns belongs to a complete set.
AllOrNothingChunkWrite ==
    /\ \A d \in documents :
         Cardinality(ChunksOf(d.id))
           \in {0, Len(split_text(ExtractText(d.filename)))}
    /\ \A r \in Elements(Results) :
         Cardinality(ChunksOf(r.doc_id))
           = Len(split_text(ExtractText(r.filename)))

\* store_chunks has raised after the first of its two inserts, no chunk is
\* stored, and a query() call has read the store since.
PartialWriteDiscarded ==
    /\ chunks = {}
    /\ chunk_seq = 1
    /\ \E p \in Workers :
         /\ ing[p].ret = "raised"
         /\ ing[p].open_conns = 1
         /\ Len(ing[p].all_embeddings) = 2
         /\ \E d \in documents : d.id = ing[p].doc_id
    /\ qry # NoneVal
    /\ qry[1].searched # <<>>

\* The reasons of an early failure: no such file, open() or read() failed,
\* no text after strip().
EarlyFailures == {"not_found", "unreadable", "no_text"}

\* C24: a step in which ingest_document returns False because the file is
\* missing, cannot be read or yields no text leaves documents, chunks and both
\* id sequences as they were, and no row answers document_exists for that
\* file afterwards; no call for such a file ever returns as a skip.
EarlyFailureLeavesStore ==
    [][\A p \in Workers :
         /\ (/\ ing'[p] # ing[p]
             /\ ing'[p].ret = "False"
             /\ ing'[p].why \in EarlyFailures)
            => /\ documents' = documents
               /\ chunks' = chunks
               /\ doc_seq' = doc_seq
               /\ chunk_seq' = chunk_seq
               /\ {d \in documents' : /\ d.filename = ing'[p].file
                                      /\ d.file_size = FileSize(ing'[p].file)} = {}
         /\ (ing'[p].why = "skip")
            => /\ PathExists(ing'[p].file)
               /\ Readable(ing'[p].file)
               /\ FileText(ing'[p].file) # <<>>]_vars

\* The second call has failed on a file that cannot be opened, after another
\* file was stored, and the store holds that other file only.
UnreadableFileFailed ==
    /\ calls = 2
    /\ ing["w1"].file = "locked.txt"
    /\ ing["w1"].ret = "False"
    /\ ing["w1"].why = "unreadable"
    /\ \A d \in documents : d.filename = "big_report.txt"
    /\ documents # {}

\* C25: the context of a response is the "No relevant information found."
\* string exactly when the search returned no result; when the first result's
\* block alone costs more than the budget the context is the empty string,
\* generate_response has been called and has given the answer, and sources
\* lists every result.
SentinelOnlyForEmptyInput ==
    Responded =>
      LET rs == Results
          response == qry[1].response[1]
      IN /\ response.context = NoRelevantInformation <=> rs = <<>>
         /\ (rs # <<>> /\ EstimatedTokens(rs[1]) > default_max_tokens)
              => /\ response.context = EmptyString
                 /\ "generate_response" \in qry[1].invoked
                 /\ response.answer
                      = IF "llm" \in qry[1].faults THEN "Error generating response"
                        ELSE "generated answer"
                 /\ Len(response.sources) = Len(rs)

\* A response to a search whose first result is the chunk of 13000
\* characters: an empty context, a generated answer and two sources.
EmptyContextAnswered ==
    /\ Responded
    /\ Len(Results) = 2
    /\ EstimatedTokens(Results[1]) > default_max_tokens
    /\ qry[1].response[1].context = EmptyString
    /\ qry[1].response[1].answer = "generated answer"
    /\ Len(qry[1].response[1].sources) = 2

====
